---- MODULE Spec2Model ----
(***************************************************************************)
(* The POST /api/tts handler of src/index.ts as a state machine.  One      *)
(* request is followed from the destructuring of its body to the value the *)
(* handler returns; the handler's suspension points (auth.getClient,       *)
(* client.getAccessToken, fetch and the reading of the provider's body)    *)
(* are the steps.  Strings that the code searches with includes(), and the *)
(* base64 text it decodes, are sequences of one-character strings.         *)
(***************************************************************************)
EXTENDS Integers, Sequences, FiniteSets, TLC

VARIABLES env, body, pc, headers, requestBody, apiUrl, response, set,
          returned, log, outbound, tokenFetches, synthCalls, failed

vars == << env, body, pc, headers, requestBody, apiUrl, response, set,
           returned, log, outbound, tokenFetches, synthCalls, failed >>

\* ---------------------------------------------------------------- bounds
\* Longest audio clip (in bytes) a provider answers with.
MaxAudioLen == 3

\* ------------------------------------------------------- string literals
\* "Text is required"
TextRequired ==
  << "T", "e", "x", "t", " ", "i", "s", " ", "r", "e", "q", "u", "i", "r", "e", "d" >>

\* "Failed to get service account access token"
TokenFailed ==
  << "F", "a", "i", "l", "e", "d", " ", "t", "o", " ", "g", "e", "t", " ", "s", "e", "r", "v", "i", "c", "e", " ", "a", "c", "c", "o", "u", "n", "t", " ", "a", "c", "c", "e", "s", "s", " ", "t", "o", "k", "e", "n" >>

\* "Service account authentication failed"
AuthFailed ==
  << "S", "e", "r", "v", "i", "c", "e", " ", "a", "c", "c", "o", "u", "n", "t", " ", "a", "u", "t", "h", "e", "n", "t", "i", "c", "a", "t", "i", "o", "n", " ", "f", "a", "i", "l", "e", "d" >>

\* "Limit exceeded per project per minute"
LimitExceeded ==
  << "L", "i", "m", "i", "t", " ", "e", "x", "c", "e", "e", "d", "e", "d", " ", "p", "e", "r", " ", "p", "r", "o", "j", "e", "c", "t", " ", "p", "e", "r", " ", "m", "i", "n", "u", "t", "e" >>

\* "TTS API key not configured"
TtsKeyNotConfigured ==
  << "T", "T", "S", " ", "A", "P", "I", " ", "k", "e", "y", " ", "n", "o", "t", " ", "c", "o", "n", "f", "i", "g", "u", "r", "e", "d" >>

\* "OpenAI API key not configured"
OpenAIKeyNotConfigured ==
  << "O", "p", "e", "n", "A", "I", " ", "A", "P", "I", " ", "k", "e", "y", " ", "n", "o", "t", " ", "c", "o", "n", "f", "i", "g", "u", "r", "e", "d" >>

\* "TTS API request failed"
TtsRequestFailed ==
  << "T", "T", "S", " ", "A", "P", "I", " ", "r", "e", "q", "u", "e", "s", "t", " ", "f", "a", "i", "l", "e", "d" >>

\* "Failed to generate audio"
FailedToGenerate ==
  << "F", "a", "i", "l", "e", "d", " ", "t", "o", " ", "g", "e", "n", "e", "r", "a", "t", "e", " ", "a", "u", "d", "i", "o" >>

\* "Internal server error"
InternalServerError ==
  << "I", "n", "t", "e", "r", "n", "a", "l", " ", "s", "e", "r", "v", "e", "r", " ", "e", "r", "r", "o", "r" >>

\* "quota"
NeedleQuotaLower ==
  << "q", "u", "o", "t", "a" >>

\* "Quota"
NeedleQuotaUpper ==
  << "Q", "u", "o", "t", "a" >>

\* "requests_per_minute"
NeedleRpm ==
  << "r", "e", "q", "u", "e", "s", "t", "s", "_", "p", "e", "r", "_", "m", "i", "n", "u", "t", "e" >>

\* "rate limit"
NeedleRateLimit ==
  << "r", "a", "t", "e", " ", "l", "i", "m", "i", "t" >>

\* "Quota exceeded for requests_per_minute"
MsgQuotaRpm ==
  << "Q", "u", "o", "t", "a", " ", "e", "x", "c", "e", "e", "d", "e", "d", " ", "f", "o", "r", " ", "r", "e", "q", "u", "e", "s", "t", "s", "_", "p", "e", "r", "_", "m", "i", "n", "u", "t", "e" >>

\* "QUOTA EXCEEDED"
MsgQuotaCaps ==
  << "Q", "U", "O", "T", "A", " ", "E", "X", "C", "E", "E", "D", "E", "D" >>

\* "Rate Limit reached"
MsgRateLimitCaps ==
  << "R", "a", "t", "e", " ", "L", "i", "m", "i", "t", " ", "r", "e", "a", "c", "h", "e", "d" >>

\* "rate limit reached"
MsgRateLimit ==
  << "r", "a", "t", "e", " ", "l", "i", "m", "i", "t", " ", "r", "e", "a", "c", "h", "e", "d" >>

\* "out of quota"
MsgLowerQuota ==
  << "o", "u", "t", " ", "o", "f", " ", "q", "u", "o", "t", "a" >>

\* "Voice not found"
MsgInvalidVoice ==
  << "V", "o", "i", "c", "e", " ", "n", "o", "t", " ", "f", "o", "u", "n", "d" >>

\* "invalid_grant"
MsgInvalidGrant ==
  << "i", "n", "v", "a", "l", "i", "d", "_", "g", "r", "a", "n", "t" >>

B64Alphabet ==
  <<
     "A", "B", "C", "D", "E", "F", "G", "H", "I", "J", "K", "L", "M", "N", "O", "P",
     "Q", "R", "S", "T", "U", "V", "W", "X", "Y", "Z", "a", "b", "c", "d", "e", "f",
     "g", "h", "i", "j", "k", "l", "m", "n", "o", "p", "q", "r", "s", "t", "u", "v",
     "w", "x", "y", "z", "0", "1", "2", "3", "4", "5", "6", "7", "8", "9", "+", "/" >>

\* ------------------------------------------------------ JavaScript values
\* The value of a variable or property that was never set.
Undefined == "undefined"

\* An object without properties; also stands for a `let` that was not set.
NoValue == << >>

\* Destructuring with a default: the default applies when the key is absent.
Get(obj, key, default) == IF key \in DOMAIN obj THEN obj[key] ELSE default

\* Truthiness of a string-or-undefined value.
Truthy(s) == s # Undefined /\ s # ""

\* String.prototype.includes on character sequences.
Includes(s, sub) ==
  \E i \in 0..(Len(s) - Len(sub)) : SubSeq(s, i + 1, i + Len(sub)) = sub

\* Parsed JSON values, tagged by their JavaScript type.
JUndefined == [t |-> "undefined"]
JNull == [t |-> "null"]
JNum(n) == [t |-> "number", v |-> n]
JStr(s) == [t |-> "string", v |-> s]
JObj(f) == [t |-> "object", v |-> f]

\* Reading a property of null or undefined throws a TypeError.
Nullish(j) == j.t \in {"undefined", "null"}

\* j.key for a value that is not nullish.
Prop(j, key) ==
  IF j.t = "object" /\ key \in DOMAIN j.v THEN j.v[key] ELSE JUndefined

\* j?.key
OptProp(j, key) == IF Nullish(j) THEN JUndefined ELSE Prop(j, key)

\* Truthiness of a parsed JSON value.
JTruthy(j) ==
  CASE j.t = "undefined" -> FALSE
    [] j.t = "null" -> FALSE
    [] j.t = "number" -> j.v # 0
    [] j.t = "string" -> j.v # << >>
    [] OTHER -> TRUE

\* ----------------------------------------------------------------- base64
B64Index(c) == (CHOOSE i \in 1..64 : B64Alphabet[i] = c) - 1

B64Char(n) == B64Alphabet[n + 1]

\* The provider's encoding of audio bytes (RFC 4648, with padding).
RECURSIVE Base64Encode(_)
Base64Encode(bytes) ==
  IF Len(bytes) = 0 THEN << >>
  ELSE IF Len(bytes) = 1 THEN
    << B64Char(bytes[1] \div 4), B64Char((bytes[1] % 4) * 16), "=", "=" >>
  ELSE IF Len(bytes) = 2 THEN
    << B64Char(bytes[1] \div 4),
       B64Char((bytes[1] % 4) * 16 + bytes[2] \div 16),
       B64Char((bytes[2] % 16) * 4), "=" >>
  ELSE
    << B64Char(bytes[1] \div 4),
       B64Char((bytes[1] % 4) * 16 + bytes[2] \div 16),
       B64Char((bytes[2] % 16) * 4 + bytes[3] \div 64),
       B64Char(bytes[3] % 64) >>
    \o Base64Encode(SubSeq(bytes, 4, Len(bytes)))

IsB64Char(c) == \E i \in 1..64 : B64Alphabet[i] = c

\* The element of a one-element set: binds an intermediate result once.
The(S) == CHOOSE x \in S : TRUE

\* The characters before the first "=".
Base64Prefix(chars) ==
  LET stops == {i \in 1..Len(chars) : chars[i] = "="}
  IN IF stops = {} THEN chars
     ELSE SubSeq(chars, 1, (CHOOSE i \in stops : \A j \in stops : i <= j) - 1)

\* The 6-bit values of the characters before the first "=", characters
\* outside the alphabet skipped.
Sextets(chars) ==
  The({ [i \in 1..Len(kept) |-> B64Index(kept[i])] :
          kept \in {SelectSeq(Base64Prefix(chars), IsB64Char)} })

\* Every four 6-bit values give three bytes; two or three left over give one
\* or two bytes, one left over gives none.
SextetsToBytes(s) ==
  [k \in 1..((Len(s) * 3) \div 4) |->
     LET base == 4 * ((k - 1) \div 3)
     IN CASE (k - 1) % 3 = 0 -> s[base + 1] * 4 + s[base + 2] \div 16
          [] (k - 1) % 3 = 1 -> (s[base + 2] % 16) * 16 + s[base + 3] \div 4
          [] OTHER -> (s[base + 3] % 4) * 64 + s[base + 4]]

\* Variant: only whole groups of four characters are decoded.
BufferFromBase64_WholeGroups(chars) ==
  The({ SextetsToBytes(SubSeq(s, 1, 4 * (Len(s) \div 4))) : s \in {Sextets(chars)} })

\* Buffer.from(str, "base64")
BufferFromBase64(chars) == The({ SextetsToBytes(s) : s \in {Sextets(chars)} })

\* Number.prototype.toString for a byte length.
Digits == << "0", "1", "2", "3", "4", "5", "6", "7", "8", "9" >>

RECURSIVE NumberToString(_)
NumberToString(n) ==
  IF n < 10 THEN << Digits[n + 1] >>
  ELSE NumberToString(n \div 10) \o << Digits[(n % 10) + 1] >>

\* ------------------------------------------------------------ environment
\* process.env: each key is either unset or set.
Environments ==
  { [k \in keys |-> "secret"] : keys \in SUBSET {"GOOGLE_TTS_API", "OPENAI_API_KEY"} }

GOOGLE_TTS_API_KEY == Get(env, "GOOGLE_TTS_API", Undefined)

OPENAI_API_KEY == Get(env, "OPENAI_API_KEY", Undefined)

\* ------------------------------------------------------------ the request
BodyKeys ==
  { "text", "apiMode", "languageCode", "modelName", "voiceName",
    "audioEncoding", "pitch", "speakingRate" }

FullBodies ==
  [ text : {"", "halo"},
    apiMode : {"standard", "vertex", "openai", "commercial"},
    languageCode : {"en-US"},
    modelName : {"chirp"},
    voiceName : {"Kore"},
    audioEncoding : {"MP3", "LINEAR16", "OGG_OPUS"},
    pitch : {0, 5},
    speakingRate : {1, 2} ]

\* JSON bodies: every field may be left out.
Bodies == { [k \in keys |-> full[k]] : full \in FullBodies, keys \in SUBSET BodyKeys }

text == Get(body, "text", Undefined)

apiMode == Get(body, "apiMode", "standard")

languageCode == Get(body, "languageCode", "id-ID")

modelName == Get(body, "modelName", Undefined)

voiceName == Get(body, "voiceName", Undefined)

audioEncoding == Get(body, "audioEncoding", "MP3")

pitch == Get(body, "pitch", 0)

speakingRate == Get(body, "speakingRate", 1)

\* Variant: only an absent text is rejected, "" passes.
TextMissing_UndefinedOnly == text = Undefined

\* if (!text)
TextMissing == ~Truthy(text)

\* ------------------------------------------------------ outbound payloads
GoogleUrl == "https://texttospeech.googleapis.com/v1/text:synthesize"

OpenAIUrl == "https://api.openai.com/v1/audio/speech"

\* The voice object of the standard request.
StandardVoice ==
  [languageCode |-> languageCode]
    @@ (IF Truthy(voiceName) THEN [name |-> voiceName] ELSE NoValue)
    @@ (IF Truthy(modelName) THEN [modelName |-> modelName] ELSE NoValue)

\* Variant: `if (pitch)` and `if (speakingRate)` in place of the comparisons
\* with the defaults.
StandardAudioConfig_Truthy ==
  [audioEncoding |-> audioEncoding]
    @@ (IF pitch # 0 THEN [pitch |-> pitch] ELSE NoValue)
    @@ (IF speakingRate # 0 THEN [speakingRate |-> speakingRate] ELSE NoValue)

\* The audioConfig object of the standard request.
StandardAudioConfig ==
  [audioEncoding |-> audioEncoding]
    @@ (IF pitch # 0 THEN [pitch |-> pitch] ELSE NoValue)
    @@ (IF speakingRate # 1 THEN [speakingRate |-> speakingRate] ELSE NoValue)

StandardRequestBody ==
  [input |-> [text |-> text], voice |-> StandardVoice,
   audioConfig |-> StandardAudioConfig]

VertexRequestBody ==
  [input |-> [text |-> text],
   voice |-> [languageCode |-> languageCode,
              modelName |-> "gemini-2.5-flash-tts",
              name |-> voiceName],
   audioConfig |-> [audioEncoding |-> "LINEAR16"]]

OpenAIRequestBody ==
  [model |-> "gpt-4o-mini-tts",
   instructions |-> "indonesianInstructions",
   input |-> text,
   voice |-> voiceName,
   response_format |-> IF audioEncoding = "LINEAR16" THEN "wav" ELSE "mp3",
   speed |-> speakingRate]

\* An object without the listed properties where their value is undefined.
OmitUndefined(obj, keys) ==
  [k \in {j \in DOMAIN obj : ~(j \in keys /\ obj[j] = Undefined)} |-> obj[k]]

\* JSON.stringify(requestBody), as the document it denotes: a property whose
\* value is undefined is left out, and undefined itself yields no body.
JsonStringify(rb) ==
  IF DOMAIN rb = {} THEN NoValue
  ELSE IF "model" \in DOMAIN rb THEN OmitUndefined(rb, {"voice"})
  ELSE [rb EXCEPT !.voice = OmitUndefined(rb.voice, {"name"})]

\* Variant: the standard branch tests the other provider's key.
StandardKeyMissing_OtherKey == ~Truthy(OPENAI_API_KEY)

\* if (!GOOGLE_TTS_API_KEY)
StandardKeyMissing == ~Truthy(GOOGLE_TTS_API_KEY)

\* Variant: the openai branch tests the other provider's key.
OpenAIKeyMissing_OtherKey == ~Truthy(GOOGLE_TTS_API_KEY)

\* if (!OPENAI_API_KEY)
OpenAIKeyMissing == ~Truthy(OPENAI_API_KEY)

\* Variant: the content type follows the encoding sent to the provider, which
\* is always LINEAR16 in the vertex branch.
ContentType_OfPayload ==
  IF apiMode = "vertex" \/ audioEncoding = "LINEAR16" THEN "audio/wav" ELSE "audio/mpeg"

\* const contentType = audioEncoding === "LINEAR16" ? "audio/wav" : "audio/mpeg"
ContentType == IF audioEncoding = "LINEAR16" THEN "audio/wav" ELSE "audio/mpeg"

\* ------------------------------------------------- quota classification
\* errorMessage.includes("quota") || errorMessage.includes("Quota") || ...
IsQuotaMessage(m) ==
  \/ Includes(m, NeedleQuotaLower)
  \/ Includes(m, NeedleQuotaUpper)
  \/ Includes(m, NeedleRpm)
  \/ Includes(m, NeedleRateLimit)

\* ------------------------------------------------- the outside world
\* Messages of failed token acquisitions and of provider error bodies.
Messages ==
  { MsgQuotaRpm, MsgQuotaCaps, MsgRateLimitCaps, MsgRateLimit, MsgLowerQuota,
    NeedleRpm, MsgInvalidVoice, MsgInvalidGrant }

\* What auth.getClient() and client.getAccessToken() can throw.
AuthErrors ==
  { [isError |-> TRUE, name |-> "Error", message |-> m] : m \in Messages }
    \cup { [isError |-> FALSE, name |-> "string"] }

\* accessToken.token
Tokens == { Undefined, "", "ya29.token" }

AudioByteValues == { 77, 255 }

\* The audio a provider synthesizes.
AudioClips == UNION { [1..n -> AudioByteValues] : n \in 0..MaxAudioLen }

\* JSON bodies of a response that is not ok.
ErrorBodies ==
  { JNull, JNum(0), JObj(NoValue), JObj([error |-> JNull]),
    JObj([error |-> JStr(MsgQuotaRpm)]), JObj([error |-> JObj(NoValue)]),
    JObj([error |-> JObj([message |-> JStr(<< >>)])]),
    JObj([error |-> JObj([message |-> JNum(429)])]) }
    \cup { JObj([error |-> JObj([message |-> JStr(m)])]) : m \in Messages }

\* JSON bodies of an ok response of the Google endpoint that carry no audio.
MalformedSuccessBodies ==
  { JNull, JObj(NoValue), JObj([audioContent |-> JNum(7)]),
    JObj([audioContent |-> JNull]) }

HttpResponse(ok, type, json, audio) ==
  [ok |-> ok, type |-> type, json |-> json, audio |-> audio]

\* Responses whose ok is false: a JSON error body, a body that is not JSON,
\* or a body whose transfer breaks off.
FailureResponses ==
  { HttpResponse(FALSE, "json", j, << >>) : j \in ErrorBodies }
    \cup { HttpResponse(FALSE, t, JUndefined, << >>) : t \in {"bytes", "aborted"} }

\* Responses whose ok is true: the OpenAI endpoint answers with the audio
\* bytes, the Google endpoint with JSON carrying the audio in base64.
SuccessResponses(url) ==
  IF url.base = OpenAIUrl
  THEN { HttpResponse(TRUE, "bytes", JUndefined, a) : a \in AudioClips }
         \cup { HttpResponse(TRUE, "aborted", JUndefined, << >>) }
  ELSE { HttpResponse(TRUE, "json",
                      JObj([audioContent |-> JStr(Base64Encode(a))]), a) :
           a \in AudioClips }
         \cup { HttpResponse(TRUE, "json", j, << >>) : j \in MalformedSuccessBodies }
         \cup { HttpResponse(TRUE, t, JUndefined, << >>) : t \in {"bytes", "aborted"} }

ProviderResponses(url) == FailureResponses \cup SuccessResponses(url)

NoResponse == HttpResponse(FALSE, "none", JUndefined, << >>)

\* ---------------------------------------------------------- initial state
Init ==
  /\ env \in Environments
  /\ body \in Bodies
  /\ pc = "start"
  /\ headers = ("Content-Type" :> "application/json")
  /\ requestBody = NoValue
  /\ apiUrl = [base |-> ""]
  /\ response = NoResponse
  /\ set = [status |-> 200, headers |-> NoValue]
  /\ returned = [kind |-> "none"]
  /\ log = << >>
  /\ outbound = NoValue
  /\ tokenFetches = 0
  /\ synthCalls = 0
  /\ failed = FALSE

\* ------------------------------------------------------- ways of returning
\* set.status = status; return { error: message }
ReturnError(status, message) ==
  /\ set' = [set EXCEPT !.status = status]
  /\ returned' = [kind |-> "object", error |-> message]
  /\ pc' = "done"

\* Variant: the catch returns the error object without setting set.status.
OuterCatch_StatusUnset(error) ==
  /\ log' = Append(log, [tag |-> "TTS Error:", error |-> error])
  /\ returned' = [kind |-> "object", error |-> InternalServerError]
  /\ pc' = "done"
  /\ UNCHANGED set

\* The outer catch: log, set.status = 500, return the fixed message.
OuterCatch(error) ==
  /\ log' = Append(log, [tag |-> "TTS Error:", error |-> error])
  /\ ReturnError(500, InternalServerError)

\* The catch around the token acquisition.
AuthCatch(error) ==
  LET errorMessage == IF error.isError THEN error.message ELSE AuthFailed
  IN /\ log' = Append(log, [tag |-> "Service account authentication failed:",
                            error |-> error])
     /\ IF IsQuotaMessage(errorMessage)
        THEN ReturnError(429, LimitExceeded)
        ELSE ReturnError(500, AuthFailed)

\* set.headers[...] = ...; return new Response(audioBuffer, { headers })
ReturnAudio(audioBuffer) ==
  LET audioHeaders == ("Content-Type" :> ContentType)
                        @@ ("Content-Length" :> NumberToString(Len(audioBuffer)))
  IN /\ set' = [set EXCEPT !.headers = audioHeaders @@ set.headers]
     /\ returned' = [kind |-> "Response", status |-> 200,
                     headers |-> audioHeaders, body |-> audioBuffer]
     /\ pc' = "done"

RuntimeError(name) == [isError |-> TRUE, name |-> name]

\* ------------------------------------------------------------ the handler
\* if (!text) { set.status = 400; return { error: "Text is required" } }
RejectEmptyText ==
  /\ pc = "start"
  /\ TextMissing
  /\ ReturnError(400, TextRequired)
  /\ UNCHANGED << env, body, headers, requestBody, apiUrl, response, log,
                  outbound, tokenFetches, synthCalls, failed >>

\* apiMode === "vertex": up to the first await.
VertexBegin ==
  /\ pc = "start"
  /\ ~TextMissing
  /\ apiMode = "vertex"
  /\ pc' = "getClient"
  /\ UNCHANGED << env, body, headers, requestBody, apiUrl, response, set,
                  returned, log, outbound, tokenFetches, synthCalls, failed >>

\* await auth.getClient()
GetClient ==
  /\ pc = "getClient"
  /\ \/ /\ pc' = "getAccessToken"
        /\ UNCHANGED << set, returned, log, failed >>
     \/ /\ \E error \in AuthErrors : AuthCatch(error)
        /\ failed' = TRUE
  /\ UNCHANGED << env, body, headers, requestBody, apiUrl, response,
                  outbound, tokenFetches, synthCalls >>

\* await client.getAccessToken() and the rest of the vertex branch.
GetAccessToken ==
  /\ pc = "getAccessToken"
  /\ tokenFetches' = tokenFetches + 1
  /\ \/ \E token \in Tokens :
          IF ~Truthy(token)
          THEN /\ ReturnError(500, TokenFailed)
               /\ failed' = TRUE
               /\ UNCHANGED << headers, requestBody, apiUrl, log >>
          ELSE /\ headers' = ("Authorization" :> << "Bearer ", token >>) @@ headers
               /\ requestBody' = VertexRequestBody
               /\ apiUrl' = [base |-> GoogleUrl]
               /\ pc' = "fetch"
               /\ UNCHANGED << set, returned, log, failed >>
     \/ /\ \E error \in AuthErrors : AuthCatch(error)
        /\ failed' = TRUE
        /\ UNCHANGED << headers, requestBody, apiUrl >>
  /\ UNCHANGED << env, body, response, outbound, synthCalls >>

\* apiMode === "standard"
StandardBuild ==
  /\ pc = "start"
  /\ ~TextMissing
  /\ apiMode = "standard"
  /\ requestBody' = StandardRequestBody
  /\ IF StandardKeyMissing
     THEN /\ ReturnError(500, TtsKeyNotConfigured)
          /\ UNCHANGED apiUrl
     ELSE /\ apiUrl' = [base |-> GoogleUrl, key |-> GOOGLE_TTS_API_KEY]
          /\ pc' = "fetch"
          /\ UNCHANGED << set, returned >>
  /\ UNCHANGED << env, body, headers, response, log, outbound, tokenFetches,
                  synthCalls, failed >>

\* apiMode === "openai"
OpenAIBuild ==
  /\ pc = "start"
  /\ ~TextMissing
  /\ apiMode = "openai"
  /\ IF OpenAIKeyMissing
     THEN /\ ReturnError(500, OpenAIKeyNotConfigured)
          /\ UNCHANGED << headers, requestBody, apiUrl >>
     ELSE /\ headers' = ("Authorization" :> << "Bearer ", OPENAI_API_KEY >>) @@ headers
          /\ requestBody' = OpenAIRequestBody
          /\ apiUrl' = [base |-> OpenAIUrl]
          /\ pc' = "fetch"
          /\ UNCHANGED << set, returned >>
  /\ UNCHANGED << env, body, response, log, outbound, tokenFetches, synthCalls,
                  failed >>

\* Any other apiMode: no branch is taken and the code goes on to fetch.
UnknownMode ==
  /\ pc = "start"
  /\ ~TextMissing
  /\ apiMode \notin {"vertex", "standard", "openai"}
  /\ pc' = "fetch"
  /\ UNCHANGED << env, body, headers, requestBody, apiUrl, response, set,
                  returned, log, outbound, tokenFetches, synthCalls, failed >>

\* Variant: a response that is not ok is retried once.
AfterFetch_Retry(r) ==
  IF ~r.ok /\ synthCalls = 0 THEN "fetch"
  ELSE IF ~r.ok THEN "errorJson"
  ELSE IF apiMode = "openai" THEN "arrayBuffer" ELSE "dataJson"

\* Where the handler waits next once fetch has resolved.
AfterFetch(r) ==
  IF ~r.ok THEN "errorJson"
  ELSE IF apiMode = "openai" THEN "arrayBuffer" ELSE "dataJson"

\* await fetch(apiUrl, { method: "POST", headers, body }): fetch rejects an
\* empty URL, rejects on a network error, or resolves with a response.
Fetch ==
  /\ pc = "fetch"
  /\ synthCalls' = synthCalls + 1
  /\ outbound' = [url |-> apiUrl, method |-> "POST", headers |-> headers,
                   body |-> JsonStringify(requestBody)]
  /\ IF apiUrl.base = ""
     THEN /\ OuterCatch(RuntimeError("TypeError"))
          /\ failed' = TRUE
          /\ UNCHANGED response
     ELSE \/ /\ OuterCatch(RuntimeError("NetworkError"))
             /\ failed' = TRUE
             /\ UNCHANGED response
          \/ \E r \in ProviderResponses(apiUrl) :
               /\ response' = r
               /\ pc' = AfterFetch(r)
               /\ failed' = ~r.ok
               /\ UNCHANGED << set, returned, log >>
  /\ UNCHANGED << env, body, headers, requestBody, apiUrl, tokenFetches >>

\* errorData.error?.message || "TTS API request failed"
ErrorMessageOf(errorData) ==
  LET m == OptProp(Prop(errorData, "error"), "message")
  IN IF JTruthy(m) THEN m ELSE JStr(TtsRequestFailed)

\* What the branch `if (!response.ok)` throws.
ProviderFailure(r) ==
  IF r.type # "json" THEN RuntimeError("SyntaxError")
  ELSE IF Nullish(r.json) THEN RuntimeError("TypeError")
  ELSE LET errorMessage == ErrorMessageOf(r.json)
       IN IF errorMessage.t # "string" THEN RuntimeError("TypeError")
          ELSE IF IsQuotaMessage(errorMessage.v)
               THEN [isError |-> TRUE, name |-> "Error", message |-> LimitExceeded]
               ELSE [isError |-> TRUE, name |-> "Error", message |-> errorMessage.v]

\* if (!response.ok) { const errorData = await response.json(); ... throw }
ReadErrorJson ==
  /\ pc = "errorJson"
  /\ OuterCatch(ProviderFailure(response))
  /\ UNCHANGED << env, body, headers, requestBody, apiUrl, response,
                  outbound, tokenFetches, synthCalls, failed >>

\* apiMode === "openai": const audioBuffer = await response.arrayBuffer().
\* The second test of response.ok in this branch (lines 180-190) is never
\* true here: a response that is not ok has been thrown on at line 165.
ReadArrayBuffer ==
  /\ pc = "arrayBuffer"
  /\ IF response.type = "aborted"
     THEN OuterCatch(RuntimeError("AbortError"))
     ELSE /\ ReturnAudio(response.audio)
          /\ UNCHANGED log
  /\ UNCHANGED << env, body, headers, requestBody, apiUrl, response,
                  outbound, tokenFetches, synthCalls, failed >>

\* Google APIs: const data = await response.json(); data.audioContent
ReadDataJson ==
  /\ pc = "dataJson"
  /\ IF response.type # "json"
     THEN OuterCatch(RuntimeError("SyntaxError"))
     ELSE IF Nullish(response.json)
     THEN OuterCatch(RuntimeError("TypeError"))
     ELSE LET audioContent == Prop(response.json, "audioContent")
          IN IF ~JTruthy(audioContent)
             THEN /\ ReturnError(500, FailedToGenerate)
                  /\ UNCHANGED log
             ELSE IF audioContent.t # "string"
             THEN OuterCatch(RuntimeError("TypeError"))
             ELSE /\ ReturnAudio(BufferFromBase64(audioContent.v))
                  /\ UNCHANGED log
  /\ UNCHANGED << env, body, headers, requestBody, apiUrl, response,
                  outbound, tokenFetches, synthCalls, failed >>

Next ==
  \/ RejectEmptyText
  \/ VertexBegin
  \/ GetClient
  \/ GetAccessToken
  \/ StandardBuild
  \/ OpenAIBuild
  \/ UnknownMode
  \/ Fetch
  \/ ReadErrorJson
  \/ ReadArrayBuffer
  \/ ReadDataJson

Spec == Init /\ [][Next]_vars

\* ------------------------------------------------- the response on the wire
\* A returned Response is sent as it is; any other value is sent as JSON
\* with set.status.
Finished == pc = "done"

HttpStatus == IF returned.kind = "Response" THEN returned.status ELSE set.status

IsAudioResponse == returned.kind = "Response"

IsErrorResponse == returned.kind = "object" /\ "error" \in DOMAIN returned

\* ---------------------------------------------------- reading the response
\* The request as the client sent it (absent fields count as the defaults
\* of the documented interface).
RequestHas(key) == key \in DOMAIN body

RequestTextEmpty == ~RequestHas("text") \/ body.text = ""

RequestedEncoding == IF RequestHas("audioEncoding") THEN body.audioEncoding ELSE "MP3"

RequestedPitch == IF RequestHas("pitch") THEN body.pitch ELSE 0

RequestedRate == IF RequestHas("speakingRate") THEN body.speakingRate ELSE 1

KeyConfigured(name) == name \in DOMAIN env

ErrorResponseIs(status, message) ==
  /\ IsErrorResponse
  /\ HttpStatus = status
  /\ returned.error = message

\* A client's reading of a decimal Content-Length.
RECURSIVE ParseDecimal(_)
ParseDecimal(chars) ==
  IF Len(chars) = 0 THEN 0
  ELSE ParseDecimal(SubSeq(chars, 1, Len(chars) - 1)) * 10
         + ((CHOOSE d \in 1..10 : Digits[d] = chars[Len(chars)]) - 1)

AudioResponseCarries(bytes) ==
  /\ IsAudioResponse
  /\ HttpStatus = 200
  /\ returned.body = bytes
  /\ "Content-Length" \in DOMAIN returned.headers
  /\ ParseDecimal(returned.headers["Content-Length"]) = Len(bytes)

UpperLetters ==
  << "A", "B", "C", "D", "E", "F", "G", "H", "I", "J", "K", "L", "M",
     "N", "O", "P", "Q", "R", "S", "T", "U", "V", "W", "X", "Y", "Z" >>

LowerLetters ==
  << "a", "b", "c", "d", "e", "f", "g", "h", "i", "j", "k", "l", "m",
     "n", "o", "p", "q", "r", "s", "t", "u", "v", "w", "x", "y", "z" >>

ToLowerCase(s) ==
  [i \in 1..Len(s) |->
     IF \E j \in 1..26 : UpperLetters[j] = s[i]
     THEN LowerLetters[CHOOSE j \in 1..26 : UpperLetters[j] = s[i]]
     ELSE s[i]]

\* The three substrings the specification names, matched whatever the case.
QuotaTextAnyCase(m) ==
  \E needle \in {NeedleQuotaLower, NeedleRpm, NeedleRateLimit} :
    Includes(ToLowerCase(m), needle)

\* The four substrings the code names, matched as spelled.
QuotaTextAsSpelled(m) ==
  \E needle \in {NeedleQuotaLower, NeedleQuotaUpper, NeedleRpm, NeedleRateLimit} :
    Includes(m, needle)

\* The provider answered with a failure status and a JSON error message m.
ProviderFailedWith(m) ==
  /\ synthCalls = 1
  /\ ~response.ok
  /\ response.type = "json"
  /\ response.json = JObj([error |-> JObj([message |-> JStr(m)])])

\* The token acquisition threw an Error.
TokenAcquisitionThrew ==
  /\ apiMode = "vertex"
  /\ Len(log) = 1
  /\ log[1].tag = "Service account authentication failed:"

\* ------------------------------------------------------------------ claims

\* C1: for every adapter, a provider failure response whose error message is
\* "Quota exceeded for requests_per_minute" ends in HTTP 429 with the body
\* {"error":"Limit exceeded per project per minute"}.
C1_ProviderQuotaIs429 ==
  (Finished /\ ProviderFailedWith(MsgQuotaRpm)) => ErrorResponseIs(429, LimitExceeded)

\* C2: a request whose text is empty or absent ends in HTTP 400 with the body
\* {"error":"Text is required"}, whatever apiMode and the configured keys are,
\* and no outbound call is made for it.
C2_EmptyTextIs400 ==
  (Finished /\ RequestTextEmpty) =>
    /\ ErrorResponseIs(400, TextRequired)
    /\ synthCalls = 0
    /\ tokenFetches = 0

C2_Witness ==
  /\ Finished
  /\ ~RequestHas("text")
  /\ RequestHas("apiMode") /\ body.apiMode = "commercial"
  /\ KeyConfigured("GOOGLE_TTS_API")
  /\ ErrorResponseIs(400, TextRequired)

\* C3 as stated: whenever the provider call succeeds, the response is HTTP 200
\* carrying exactly the provider's audio bytes, with Content-Length equal to
\* their number (Standard: the decoded audioContent; Commercial: the raw body).
C3_SuccessReturnsAudio ==
  (/\ Finished
   /\ response.ok
   /\ \/ /\ apiMode = "standard"
         /\ response.type = "json"
         /\ response.json = JObj([audioContent |-> JStr(Base64Encode(response.audio))])
      \/ /\ apiMode = "openai"
         /\ response.type = "bytes")
  => AudioResponseCarries(response.audio)

\* C3 amended: the same, for a Standard response whose audioContent is not the
\* empty string; the Commercial adapter returns any body, the empty one too.
C3_NonEmptySuccessReturnsAudio ==
  (/\ Finished
   /\ response.ok
   /\ \/ /\ apiMode = "standard"
         /\ response.type = "json"
         /\ response.json = JObj([audioContent |-> JStr(Base64Encode(response.audio))])
         /\ Len(response.audio) > 0
      \/ /\ apiMode = "openai"
         /\ response.type = "bytes")
  => AudioResponseCarries(response.audio)

C3_Witness ==
  /\ Finished
  /\ apiMode = "standard"
  /\ response.ok
  /\ response.type = "json"
  /\ Len(response.audio) = 2
  /\ AudioResponseCarries(response.audio)

\* C4: every audio response, in every apiMode, has Content-Type audio/wav when
\* the request's audioEncoding is "LINEAR16" and audio/mpeg for any other
\* value or when audioEncoding is omitted.
C4_ContentTypeFollowsEncoding ==
  (Finished /\ IsAudioResponse) =>
    /\ "Content-Type" \in DOMAIN returned.headers
    /\ returned.headers["Content-Type"] =
         (IF RequestedEncoding = "LINEAR16" THEN "audio/wav" ELSE "audio/mpeg")

C4_Witness ==
  /\ Finished
  /\ IsAudioResponse
  /\ apiMode = "vertex"
  /\ RequestedEncoding = "OGG_OPUS"
  /\ returned.headers["Content-Type"] = "audio/mpeg"

\* C5: non-empty text with apiMode "standard" or omitted, and no Standard API
\* key configured, ends in HTTP 500 with {"error":"TTS API key not configured"}.
C5_StandardWithoutKeyIs500 ==
  (/\ Finished
   /\ ~RequestTextEmpty
   /\ (~RequestHas("apiMode") \/ body.apiMode = "standard")
   /\ ~KeyConfigured("GOOGLE_TTS_API"))
  => /\ ErrorResponseIs(500, TtsKeyNotConfigured)
     /\ synthCalls = 0

C5_Witness ==
  /\ Finished
  /\ ~RequestTextEmpty
  /\ ~RequestHas("apiMode")
  /\ ~KeyConfigured("GOOGLE_TTS_API")
  /\ KeyConfigured("OPENAI_API_KEY")
  /\ RequestedPitch = 5
  /\ ErrorResponseIs(500, TtsKeyNotConfigured)

\* C6 as stated: non-empty text with apiMode "commercial" and no Commercial API
\* key configured ends in HTTP 500 with {"error":"OpenAI API key not configured"}.
C6_CommercialWithoutKeyIs500 ==
  (/\ Finished
   /\ ~RequestTextEmpty
   /\ RequestHas("apiMode") /\ body.apiMode = "commercial"
   /\ ~KeyConfigured("OPENAI_API_KEY"))
  => ErrorResponseIs(500, OpenAIKeyNotConfigured)

\* C6 amended: the Commercial adapter is selected by apiMode "openai"; non-empty
\* text with apiMode "openai" and no OPENAI_API_KEY ends in HTTP 500 with
\* {"error":"OpenAI API key not configured"} and no outbound call.
C6_OpenAIWithoutKeyIs500 ==
  (/\ Finished
   /\ ~RequestTextEmpty
   /\ RequestHas("apiMode") /\ body.apiMode = "openai"
   /\ ~KeyConfigured("OPENAI_API_KEY"))
  => /\ ErrorResponseIs(500, OpenAIKeyNotConfigured)
     /\ synthCalls = 0

C6_Witness ==
  /\ Finished
  /\ ~RequestTextEmpty
  /\ RequestHas("apiMode") /\ body.apiMode = "openai"
  /\ ~KeyConfigured("OPENAI_API_KEY")
  /\ KeyConfigured("GOOGLE_TTS_API")
  /\ ErrorResponseIs(500, OpenAIKeyNotConfigured)

\* C7: in the Standard adapter the outbound payload's audioConfig has a pitch
\* field iff the request's pitch differs from 0 and a speakingRate field iff
\* the request's speakingRate differs from 1; a field that is present carries
\* the request's value, and an omitted request field counts as the default.
C7_TuningOmittedAtDefaults ==
  (synthCalls = 1 /\ apiMode = "standard") =>
    LET audioConfig == outbound.body.audioConfig
    IN /\ ("pitch" \in DOMAIN audioConfig) <=> (RequestedPitch # 0)
       /\ ("speakingRate" \in DOMAIN audioConfig) <=> (RequestedRate # 1)
       /\ "pitch" \in DOMAIN audioConfig => audioConfig.pitch = RequestedPitch
       /\ "speakingRate" \in DOMAIN audioConfig =>
            audioConfig.speakingRate = RequestedRate

C7_Witness ==
  /\ synthCalls = 1
  /\ apiMode = "standard"
  /\ RequestHas("pitch") /\ body.pitch = 5
  /\ RequestHas("speakingRate") /\ body.speakingRate = 1
  /\ "pitch" \in DOMAIN outbound.body.audioConfig
  /\ outbound.body.audioConfig.pitch = 5
  /\ "speakingRate" \notin DOMAIN outbound.body.audioConfig

\* C8: every request ends in exactly one response, which is either a complete
\* audio response (status 200, binary body, Content-Type and Content-Length)
\* or an error response with status 400, 429 or 500 and a JSON body
\* {"error": ...} without audio headers; until it has returned the handler
\* can always take its next step, and after it has returned it takes none.
C8_AudioOrErrorResponse ==
  /\ ~Finished => (returned.kind = "none" /\ ENABLED Next)
  /\ Finished =>
       /\ ~ENABLED Next
       /\ \/ /\ IsAudioResponse
             /\ HttpStatus = 200
             /\ set.status = 200
             /\ {"Content-Type", "Content-Length"} \subseteq DOMAIN returned.headers
             /\ ParseDecimal(returned.headers["Content-Length"]) = Len(returned.body)
          \/ /\ IsErrorResponse
             /\ HttpStatus \in {400, 429, 500}
             /\ DOMAIN set.headers = {}

C8_Witness ==
  /\ Finished
  /\ synthCalls = 1
  /\ response.ok
  /\ response.type = "json"
  /\ response.json = JNull
  /\ ErrorResponseIs(500, InternalServerError)

\* C9: a failed token acquisition whose message contains "quota",
\* "requests_per_minute" or "rate limit" in any letter case ends in HTTP 429
\* with "Limit exceeded per project per minute".
C9_AnyCaseQuotaIs429 ==
  (/\ Finished
   /\ TokenAcquisitionThrew
   /\ log[1].error.isError
   /\ QuotaTextAnyCase(log[1].error.message))
  => ErrorResponseIs(429, LimitExceeded)

\* What the code does there: a failed token acquisition ends in HTTP 429 with
\* "Limit exceeded per project per minute" iff an Error was thrown whose
\* message contains
\* "quota", "Quota", "requests_per_minute" or "rate limit" spelled exactly so;
\* any other thrown value ends in HTTP 500 "Service account authentication
\* failed" and a missing token in HTTP 500 "Failed to get service account
\* access token"; in none of these cases is the provider called.
TokenFailureAsSpelled ==
  /\ (Finished /\ TokenAcquisitionThrew) =>
       /\ synthCalls = 0
       /\ IF log[1].error.isError /\ QuotaTextAsSpelled(log[1].error.message)
          THEN ErrorResponseIs(429, LimitExceeded)
          ELSE ErrorResponseIs(500, AuthFailed)
  /\ (Finished /\ apiMode = "vertex" /\ tokenFetches = 1 /\ failed
        /\ synthCalls = 0 /\ Len(log) = 0) =>
       ErrorResponseIs(500, TokenFailed)
  /\ (Finished /\ apiMode = "vertex" /\ ~RequestTextEmpty /\ synthCalls = 0) => failed

TokenFailureAsSpelled_Reached ==
  /\ Finished
  /\ TokenAcquisitionThrew
  /\ tokenFetches = 1
  /\ log[1].error.isError
  /\ log[1].error.message = MsgQuotaRpm
  /\ synthCalls = 0
  /\ ErrorResponseIs(429, LimitExceeded)

\* C10: while one request is handled the provider synthesis call is issued at
\* most once and the token fetch at most once and only in vertex mode, and
\* once an outbound call has failed no further outbound call is issued.
C10_NoRetry ==
  /\ [](synthCalls <= 1 /\ tokenFetches <= 1
        /\ (tokenFetches > 0 => (RequestHas("apiMode") /\ body.apiMode = "vertex")))
  /\ [][failed => (synthCalls' = synthCalls /\ tokenFetches' = tokenFetches)]_vars

C10_Witness ==
  /\ Finished
  /\ failed
  /\ tokenFetches = 1
  /\ synthCalls = 1
  /\ ~response.ok
====
